---- MODULE Spec2Model ----
(***************************************************************************)
(* Model of static/script.js: the browser-side controller of the MP3       *)
(* converter page.  The state is the module-level JavaScript variables,    *)
(* the part of the DOM the script reads and writes, the browser's timer    *)
(* table, localStorage, and the fetch requests that are in flight.  Every  *)
(* event handler runs to its next await as one step; the continuation      *)
(* after the await (the response) is another step.                         *)
(***************************************************************************)
EXTENDS Integers, Sequences, FiniteSets, Bags, TLC

\* ------------------------------------------------------------------ bounds
MaxEvents == 3          \* clicks, mode changes and poll ticks in one run
MaxInflight == 2        \* requests in flight at once
MaxResults == 2         \* items in one search response
MaxPendingHides == 2    \* pending auto-dismiss timeouts of the error banner
MaxLen == 2             \* length of a typed input
MaxFragments == 2       \* fragments of a message given to showError

\* ----------------------------------------------------------- JS constants
NoTask == 0             \* currentTaskId = null
NoTimer == 0            \* statusInterval = null

VARIABLES
    currentTaskId,      \* script.js:1
    statusInterval,     \* script.js:2
    timers,             \* live setInterval timers of the browser
    nextTimer,          \* the id the next setInterval returns
    hideTimers,         \* pending setTimeout(hideError, 15000) callbacks
    storage,            \* localStorage['youtube-downloader-mode']
    dom,                \* the elements the script touches
    resultBtns,         \* the "Download MP3" buttons: <<list, index>> -> button
    gen,                \* number of result lists rendered so far
    previewReqs,        \* GET /info requests in flight
    searchReqs,         \* POST /search requests in flight
    launchReqs,         \* POST /download requests in flight
    statusReqs,         \* GET /status requests in flight (a bag)
    nextTask,           \* the task_id the backend hands out next
    jobStatus,          \* backend: task_id -> status of the job
    launched,           \* history: task_ids of the successful launches, in order
    lastOp,             \* history: the step taken last
    events              \* history: clicks, mode changes and ticks so far

vars == <<currentTaskId, statusInterval, timers, nextTimer, hideTimers, storage,
          dom, resultBtns, gen, previewReqs, searchReqs, launchReqs, statusReqs,
          nextTask, jobStatus, launched, lastOp, events>>

\* ------------------------------------------------------------------ strings
\* A typed input is a sequence of characters; " " is the whitespace character.
Chars == {" ", "u"}

Inputs == UNION {[1..n -> Chars] : n \in 0..MaxLen}

IsSpace(c) == c = " "

RECURSIVE TrimStart(_)
TrimStart(s) == IF s # <<>> /\ IsSpace(Head(s)) THEN TrimStart(Tail(s)) ELSE s

RECURSIVE TrimEnd(_)
TrimEnd(s) ==
    IF s # <<>> /\ IsSpace(s[Len(s)]) THEN TrimEnd(SubSeq(s, 1, Len(s) - 1)) ELSE s

\* String.prototype.trim
Trim(s) == TrimEnd(TrimStart(s))

\* !s for a string s: only the empty string is falsy
Falsy(s) == s = <<>>

\* A message is a sequence of fragments; includes(sub) is modelled on fragments.
Includes(m, sub) == \E i \in 1..Len(m) : m[i] = sub

MsgNoUrl == <<"Please enter a YouTube URL">>
MsgNoQuery == <<"Please enter a search query">>
MsgPreviewGeneric == <<"Error fetching audio info">>
MsgLaunchGeneric == <<"Error starting MP3 conversion">>
MsgSearchGeneric == <<"Error searching videos">>
MsgJobGeneric == <<"Unknown error occurred during MP3 conversion">>
NetworkError(m) == <<"Network error: ">> \o m

\* error.message of a rejected fetch and of a failed response.json()
FetchRejected == <<"Failed to fetch">>
JsonRejected == <<"Unexpected token">>

\* detail of a non-2xx response / error of a failed job; <<>> when the field is absent
Details == {<<>>, <<"This video is ", "private">>}

FriendlyApi == <<"YouTube API Issue">>
FriendlyPrivate == <<"This video is private and cannot be downloaded.">>
FriendlyDeleted == <<"This video has been deleted and is no longer available.">>
FriendlyEmpty == <<"No downloadable videos found in this playlist.">>
FriendlyBadRequest == <<"YouTube API error. Please try again in a few moments.">>

\* the private rule tried before the API rule
FormatMessagePrivateFirst(m) ==
    IF Includes(m, "private") THEN FriendlyPrivate
    ELSE IF Includes(m, "precondition check failed") \/ Includes(m, "YouTube API error")
    THEN FriendlyApi
    ELSE IF Includes(m, "deleted") THEN FriendlyDeleted
    ELSE IF Includes(m, "No valid videos found") THEN FriendlyEmpty
    ELSE IF Includes(m, "HTTP Error 400") \/ Includes(m, "Bad Request")
    THEN FriendlyBadRequest
    ELSE m

FormatMessage(m) ==
    IF Includes(m, "precondition check failed") \/ Includes(m, "YouTube API error")
    THEN FriendlyApi
    ELSE IF Includes(m, "private") THEN FriendlyPrivate
    ELSE IF Includes(m, "deleted") THEN FriendlyDeleted
    ELSE IF Includes(m, "No valid videos found") THEN FriendlyEmpty
    ELSE IF Includes(m, "HTTP Error 400") \/ Includes(m, "Bad Request")
    THEN FriendlyBadRequest
    ELSE m

\* a || b for strings
OrElseAlwaysSecond(a, b) == b

OrElse(a, b) == IF Falsy(a) THEN b ELSE a

\* ---------------------------------------------------------------------- DOM
Button(label) == [disabled |-> FALSE, label |-> label]

PreviewLabel == "Preview Audio Info"
PreviewLoading == "Loading..."
SearchLabel == "Search Videos"
SearchLoading == "Searching..."
SubmitLabel == "Convert to MP3"
SubmitLoading == "Starting Conversion..."
ResultLabel == "Download MP3"
ResultLoading == "Starting..."

\* The document as served, before the DOMContentLoaded handler has run.
Html ==
    [modeText |-> "", checked |-> "download",
     searchSection |-> FALSE, downloadSection |-> TRUE, searchResults |-> FALSE,
     previewSection |-> FALSE, downloadStatus |-> FALSE,
     status |-> "", badge |-> "", bar |-> 0, animated |-> TRUE, actions |-> FALSE,
     errorSection |-> FALSE, errorMessage |-> <<>>,
     previewBtn |-> Button(PreviewLabel), searchBtn |-> Button(SearchLabel),
     submitBtn |-> Button(SubmitLabel)]

hideError(d) == [d EXCEPT !.errorSection = FALSE]

\* showError without its setTimeout, which the calling step adds to hideTimers
showError(d, message) ==
    [d EXCEPT !.errorMessage = FormatMessage(message), !.errorSection = TRUE]

showDownloadStatus(d) ==
    [d EXCEPT !.downloadStatus = TRUE, !.status = "Starting Conversion...",
              !.badge = "badge bg-primary", !.bar = 0, !.actions = FALSE]

\* the interval part of hideDownloadStatus: <<statusInterval, timers>> afterwards
hideDownloadStatusKeepInterval(si, ts) == <<si, ts>>

hideDownloadStatusInterval(si, ts) ==
    IF si # NoTimer THEN <<NoTimer, ts \ {si}>> ELSE <<si, ts>>

hideDownloadStatus(d) == [d EXCEPT !.downloadStatus = FALSE]

\* the DOM part of setSearchMode; its hideDownloadStatus call also stops the poller
setSearchModeKeepingStatus(d) ==
    hideError(
        [d EXCEPT !.modeText = "Current: Search Videos Mode",
                  !.downloadSection = FALSE, !.searchSection = TRUE])

setSearchMode(d) ==
    hideDownloadStatus(hideError(
        [d EXCEPT !.modeText = "Current: Search Videos Mode",
                  !.downloadSection = FALSE, !.searchSection = TRUE]))

setDownloadModeHidingStatus(d) ==
    hideDownloadStatus(hideError(
        [d EXCEPT !.modeText = "Current: Direct URL Mode",
                  !.searchSection = FALSE, !.searchResults = FALSE,
                  !.downloadSection = TRUE]))

setDownloadMode(d) ==
    hideError(
        [d EXCEPT !.modeText = "Current: Direct URL Mode",
                  !.searchSection = FALSE, !.searchResults = FALSE,
                  !.downloadSection = TRUE])

StoredValues == {"absent", "search", "download", "other"}

\* saveMode: localStorage.setItem under the fixed key; the stored value afterwards
saveModeSkipped(store, mode) == store

saveMode(store, mode) == mode

\* loadSavedMode: no interval exists yet, so only the DOM changes
loadSavedMode(d, saved) ==
    IF saved = "search"
    THEN setSearchMode([d EXCEPT !.checked = "search"])
    ELSE setDownloadMode([d EXCEPT !.checked = "download"])

\* startStatusPolling: <<statusInterval, timers, nextTimer>> afterwards
startStatusPollingNoClear(si, ts, nt) == <<nt, ts \cup {nt}, nt + 1>>

startStatusPolling(si, ts, nt) ==
    <<nt, (IF si # NoTimer THEN ts \ {si} ELSE ts) \cup {nt}, nt + 1>>

\* blank: the input read by a click was empty or whitespace only
\* kind: the handler a launch response belongs to ("form" or "result")
\* progress: the progress field of the snapshot a status response carried
\* msg: the detail of a non-2xx response, or the message given to showError
Op(name) ==
    [op |-> name, task |-> NoTask, arg |-> "", kind |-> "", blank |-> FALSE, errs |-> 0,
     progress |-> 0, msg |-> <<>>]

Init ==
    /\ currentTaskId = NoTask
    /\ statusInterval = NoTimer
    /\ timers = {}
    /\ nextTimer = 1
    /\ hideTimers = 0
    /\ storage \in StoredValues
    /\ dom = loadSavedMode(Html, storage)
    /\ resultBtns = <<>>
    /\ gen = 0
    /\ previewReqs = 0
    /\ searchReqs = 0
    /\ launchReqs = {}
    /\ statusReqs = EmptyBag
    /\ nextTask = 1
    /\ jobStatus = [t \in {} |-> ""]
    /\ launched = <<>>
    /\ lastOp = Op("load")
    /\ events = 0


\* requests the page has in flight
InFlight ==
    previewReqs + searchReqs + Cardinality(launchReqs) + BagCardinality(statusReqs)

\* ----------------------------------------------------------- mode toggle
\* searchModeBtn 'change': fires when the radio becomes checked
SearchModeChange ==
    /\ events < MaxEvents
    /\ events' = events + 1
    /\ dom.checked # "search"
    /\ storage' = saveMode(storage, "search")
    /\ dom' = setSearchMode([dom EXCEPT !.checked = "search"])
    /\ statusInterval' = hideDownloadStatusInterval(statusInterval, timers)[1]
    /\ timers' = hideDownloadStatusInterval(statusInterval, timers)[2]
    /\ lastOp' = Op("setSearchMode")
    /\ UNCHANGED <<currentTaskId, nextTimer, hideTimers, resultBtns, gen, previewReqs,
                   searchReqs, launchReqs, statusReqs, nextTask, jobStatus, launched>>

\* downloadModeBtn 'change'
DownloadModeChange ==
    /\ events < MaxEvents
    /\ events' = events + 1
    /\ dom.checked # "download"
    /\ storage' = saveMode(storage, "download")
    /\ dom' = setDownloadMode([dom EXCEPT !.checked = "download"])
    /\ lastOp' = Op("setDownloadMode")
    /\ UNCHANGED <<currentTaskId, statusInterval, timers, nextTimer, hideTimers,
                   resultBtns, gen, previewReqs, searchReqs, launchReqs, statusReqs,
                   nextTask, jobStatus, launched>>

\* ------------------------------------------------------ request outcomes
\* what an awaited fetch + response.json() can end in
Outcomes == {"ok", "fail", "reject", "badjson"}

\* the message of the error the catch block receives
Thrown(outcome) == IF outcome = "reject" THEN FetchRejected ELSE JsonRejected

\* number of showError calls of one request's continuation
ErrsOf(outcome) == IF outcome = "ok" THEN 0 ELSE 1

\* data.detail: only the body of a non-2xx response carries one
DetailOf(outcome, detail) == IF outcome = "fail" THEN detail ELSE <<>>

\* a click on a disabled button is not dispatched
Clickable(btn) == ~btn.disabled

Loading(label) == [disabled |-> TRUE, label |-> label]

\* --------------------------------------------------------------- preview
displayPreview(d) == [d EXCEPT !.previewSection = TRUE]

\* try / catch of the preview handler, without the finally block
previewTry(d, outcome, detail) ==
    CASE outcome = "ok" -> hideError(displayPreview(d))
      [] outcome = "fail" -> showError(d, OrElse(detail, MsgPreviewGeneric))
      [] OTHER -> showError(d, NetworkError(Thrown(outcome)))

previewSettledNoFinally(d, outcome, detail) ==
    IF outcome \in {"ok", "fail"}
    THEN [previewTry(d, outcome, detail) EXCEPT !.previewBtn = Button(PreviewLabel)]
    ELSE previewTry(d, outcome, detail)

previewSettled(d, outcome, detail) ==
    [previewTry(d, outcome, detail) EXCEPT !.previewBtn = Button(PreviewLabel)]

\* the URL check of the preview and of the submit handler: !url.value
urlRejected(value) == Falsy(value)

PreviewClick(value) ==
    /\ events < MaxEvents
    /\ events' = events + 1
    /\ dom.downloadSection
    /\ Clickable(dom.previewBtn)
    /\ IF urlRejected(value)
       THEN /\ hideTimers < MaxPendingHides
            /\ dom' = showError(dom, MsgNoUrl)
            /\ hideTimers' = hideTimers + 1
            /\ lastOp' = [Op("previewClick") EXCEPT !.blank = Falsy(Trim(value)), !.errs = 1]
            /\ UNCHANGED previewReqs
       ELSE /\ InFlight < MaxInflight
            /\ dom' = [dom EXCEPT !.previewBtn = Loading(PreviewLoading)]
            /\ previewReqs' = previewReqs + 1
            /\ lastOp' = [Op("previewClick") EXCEPT !.blank = Falsy(Trim(value))]
            /\ UNCHANGED hideTimers
    /\ UNCHANGED <<currentTaskId, statusInterval, timers, nextTimer, storage,
                   resultBtns, gen, searchReqs, launchReqs, statusReqs, nextTask,
                   jobStatus, launched>>

PreviewResponse(outcome, detail) ==
    /\ UNCHANGED events
    /\ previewReqs > 0
    /\ hideTimers + ErrsOf(outcome) <= MaxPendingHides
    /\ previewReqs' = previewReqs - 1
    /\ dom' = previewSettled(dom, outcome, detail)
    /\ hideTimers' = hideTimers + ErrsOf(outcome)
    /\ lastOp' = [Op("previewResponse") EXCEPT !.arg = outcome,
                                                !.errs = ErrsOf(outcome),
                                                !.msg = DetailOf(outcome, detail)]
    /\ UNCHANGED <<currentTaskId, statusInterval, timers, nextTimer, storage,
                   resultBtns, gen, searchReqs, launchReqs, statusReqs, nextTask,
                   jobStatus, launched>>

\* ---------------------------------------------------------------- search
\* displaySearchResults: the list is replaced, so its buttons are new elements;
\* a replaced button lives on only while a downloadFromSearch call holds it
displaySearchResults(d) == [d EXCEPT !.searchResults = TRUE]

NewButtons(g, n) == [b \in {g} \X (0..(n - 1)) |-> Button(ResultLabel)]

Held(btns) == [b \in {c \in DOMAIN btns : btns[c].disabled} |-> btns[b]]

searchTry(d, outcome, detail) ==
    CASE outcome = "ok" -> hideError(displaySearchResults(d))
      [] outcome = "fail" -> showError(d, OrElse(detail, MsgSearchGeneric))
      [] OTHER -> showError(d, NetworkError(Thrown(outcome)))

searchSettled(d, outcome, detail) ==
    [searchTry(d, outcome, detail) EXCEPT !.searchBtn = Button(SearchLabel)]

\* the query check of the search handler: !searchQuery.value.trim()
queryRejected(value) == Falsy(Trim(value))

SearchClick(value) ==
    /\ events < MaxEvents
    /\ events' = events + 1
    /\ dom.searchSection
    /\ Clickable(dom.searchBtn)
    /\ IF queryRejected(value)
       THEN /\ hideTimers < MaxPendingHides
            /\ dom' = showError(dom, MsgNoQuery)
            /\ hideTimers' = hideTimers + 1
            /\ lastOp' = [Op("searchClick") EXCEPT !.blank = Falsy(Trim(value)), !.errs = 1]
            /\ UNCHANGED searchReqs
       ELSE /\ InFlight < MaxInflight
            /\ dom' = [dom EXCEPT !.searchBtn = Loading(SearchLoading)]
            /\ searchReqs' = searchReqs + 1
            /\ lastOp' = [Op("searchClick") EXCEPT !.blank = Falsy(Trim(value))]
            /\ UNCHANGED hideTimers
    /\ UNCHANGED <<currentTaskId, statusInterval, timers, nextTimer, storage,
                   resultBtns, gen, previewReqs, launchReqs, statusReqs, nextTask,
                   jobStatus, launched>>

SearchResponse(outcome, detail, n) ==
    /\ UNCHANGED events
    /\ searchReqs > 0
    /\ hideTimers + ErrsOf(outcome) <= MaxPendingHides
    /\ searchReqs' = searchReqs - 1
    /\ dom' = searchSettled(dom, outcome, detail)
    /\ hideTimers' = hideTimers + ErrsOf(outcome)
    /\ IF outcome = "ok"
       THEN /\ gen' = gen + 1
            /\ resultBtns' = Held(resultBtns) @@ NewButtons(gen + 1, n)
       ELSE UNCHANGED <<gen, resultBtns>>
    /\ lastOp' = [Op("searchResponse") EXCEPT !.arg = outcome,
                                               !.errs = ErrsOf(outcome),
                                               !.msg = DetailOf(outcome, detail)]
    /\ UNCHANGED <<currentTaskId, statusInterval, timers, nextTimer, storage,
                   previewReqs, launchReqs, statusReqs, nextTask, jobStatus, launched>>


\* ---------------------------------------------------------------- launch
FormCtl == [kind |-> "form", btn |-> <<>>]
ResultCtl(b) == [kind |-> "result", btn |-> b]

\* currentTaskId = data.task_id
acceptTaskKeepFirst(cur, id) == IF cur = NoTask THEN id ELSE cur

acceptTask(cur, id) == id

\* the success branch of the two launch handlers, DOM part
launchSucceeded(d, kind) ==
    IF kind = "form"
    THEN hideError(showDownloadStatus(d))
    ELSE setDownloadMode([hideError(showDownloadStatus(d)) EXCEPT !.checked = "download"])

launchTry(d, kind, outcome, detail) ==
    CASE outcome = "ok" -> launchSucceeded(d, kind)
      [] outcome = "fail" -> showError(d, OrElse(detail, MsgLaunchGeneric))
      [] OTHER -> showError(d, NetworkError(Thrown(outcome)))

\* finally: the button gets its saved label back and is enabled again
restored(orig) == [disabled |-> FALSE, label |-> orig]

\* the buttons of the result lists after a downloadFromSearch call has let go of b
Released(btns, b, g, orig) ==
    IF b[1] = g
    THEN [btns EXCEPT ![b] = restored(orig)]
    ELSE [c \in DOMAIN btns \ {b} |-> btns[c]]

SubmitForm(value) ==
    /\ events < MaxEvents
    /\ events' = events + 1
    /\ dom.downloadSection
    /\ Clickable(dom.submitBtn)
    /\ IF urlRejected(value)
       THEN /\ hideTimers < MaxPendingHides
            /\ dom' = showError(dom, MsgNoUrl)
            /\ hideTimers' = hideTimers + 1
            /\ lastOp' = [Op("submit") EXCEPT !.blank = Falsy(Trim(value)), !.errs = 1]
            /\ UNCHANGED <<launchReqs, nextTask>>
       ELSE /\ InFlight < MaxInflight
            /\ dom' = [dom EXCEPT !.submitBtn = Loading(SubmitLoading)]
            /\ launchReqs' = launchReqs \cup
                   {[ctl |-> FormCtl, task |-> nextTask, orig |-> dom.submitBtn.label]}
            /\ nextTask' = nextTask + 1
            /\ lastOp' = [Op("submit") EXCEPT !.blank = Falsy(Trim(value))]
            /\ UNCHANGED hideTimers
    /\ UNCHANGED <<currentTaskId, statusInterval, timers, nextTimer, storage,
                   resultBtns, gen, previewReqs, searchReqs, statusReqs, jobStatus,
                   launched>>

\* downloadFromSearch, up to its await
ResultClick(b) ==
    /\ events < MaxEvents
    /\ events' = events + 1
    /\ dom.searchResults
    /\ b \in DOMAIN resultBtns
    /\ b[1] = gen
    /\ Clickable(resultBtns[b])
    /\ InFlight < MaxInflight
    /\ resultBtns' = [resultBtns EXCEPT ![b] = Loading(ResultLoading)]
    /\ launchReqs' = launchReqs \cup
           {[ctl |-> ResultCtl(b), task |-> nextTask, orig |-> resultBtns[b].label]}
    /\ nextTask' = nextTask + 1
    /\ lastOp' = Op("resultClick")
    /\ UNCHANGED <<currentTaskId, statusInterval, timers, nextTimer, hideTimers,
                   storage, dom, gen, previewReqs, searchReqs, statusReqs, jobStatus,
                   launched>>

\* the continuation of a launch handler after its await
LaunchResponse(r, outcome, detail) ==
    /\ UNCHANGED events
    /\ r \in launchReqs
    /\ hideTimers + ErrsOf(outcome) <= MaxPendingHides
    /\ launchReqs' = launchReqs \ {r}
    /\ hideTimers' = hideTimers + ErrsOf(outcome)
    /\ LET d == launchTry(dom, r.ctl.kind, outcome, detail)
       IN  IF r.ctl.kind = "form"
           THEN /\ dom' = [d EXCEPT !.submitBtn = restored(r.orig)]
                /\ UNCHANGED resultBtns
           ELSE /\ dom' = d
                /\ resultBtns' = Released(resultBtns, r.ctl.btn, gen, r.orig)
    /\ IF outcome = "ok"
       THEN /\ currentTaskId' = acceptTask(currentTaskId, r.task)
            /\ statusInterval' = startStatusPolling(statusInterval, timers, nextTimer)[1]
            /\ timers' = startStatusPolling(statusInterval, timers, nextTimer)[2]
            /\ nextTimer' = startStatusPolling(statusInterval, timers, nextTimer)[3]
            /\ jobStatus' = jobStatus @@ (r.task :> "started")
            /\ launched' = Append(launched, r.task)
            /\ storage' = IF r.ctl.kind = "form" THEN storage
                          ELSE saveMode(storage, "download")
       ELSE UNCHANGED <<currentTaskId, statusInterval, timers, nextTimer, jobStatus,
                        launched, storage>>
    /\ lastOp' = [Op("launchResponse") EXCEPT !.task = r.task, !.arg = outcome,
                      !.kind = r.ctl.kind, !.errs = ErrsOf(outcome),
                      !.msg = DetailOf(outcome, detail)]
    /\ UNCHANGED <<gen, previewReqs, searchReqs, statusReqs, nextTask>>

\* ------------------------------------------------------------ status poll
Statuses == {"started", "downloading", "completed", "error"}
Terminal == {"completed", "error"}

Rank(s) == CASE s = "started" -> 0 [] s = "downloading" -> 1 [] OTHER -> 2

\* the job only moves forward: started -> downloading -> completed | error
JobAdvance(t, s) ==
    /\ UNCHANGED events
    /\ t \in DOMAIN jobStatus
    /\ s \in Statuses
    /\ Rank(jobStatus[t]) < Rank(s)
    /\ jobStatus' = [jobStatus EXCEPT ![t] = s]
    /\ UNCHANGED <<currentTaskId, statusInterval, timers, nextTimer, hideTimers,
                   storage, dom, resultBtns, gen, previewReqs, searchReqs, launchReqs,
                   statusReqs, nextTask, launched, lastOp>>

\* the statuses the backend can report for a request received in status lo
\* and answered by the time the job is in status cur
Reportable(lo, cur) ==
    {s \in Statuses : Rank(lo) <= Rank(s) /\ Rank(s) <= Rank(cur)
                      /\ (s \in Terminal => s = cur)}

\* the id a tick requests: the global read when the callback runs
pollTargetFirst(cur, hist) == IF hist # <<>> THEN hist[1] ELSE cur

pollTarget(cur, hist) == cur

\* the setInterval callback up to its await
Tick(t) ==
    /\ events < MaxEvents
    /\ events' = events + 1
    /\ t \in timers
    /\ IF currentTaskId = NoTask
       THEN /\ lastOp' = Op("tickSkipped")
            /\ UNCHANGED statusReqs
       ELSE /\ InFlight < MaxInflight
            /\ LET id == pollTarget(currentTaskId, launched)
               IN  /\ statusReqs' = statusReqs (+)
                          SetToBag({[task |-> id, lo |-> jobStatus[id]]})
                   /\ lastOp' = [Op("tick") EXCEPT !.task = id]
    /\ UNCHANGED <<currentTaskId, statusInterval, timers, nextTimer, hideTimers,
                   storage, dom, resultBtns, gen, previewReqs, searchReqs, launchReqs,
                   nextTask, jobStatus, launched>>

\* progress field of a snapshot; Absent when the field is missing
Absent == -1
Progresses == {Absent, 42}

\* data.progress || 0
progressRaw(p) == p

progressOr0(p) == IF p = Absent \/ p = 0 THEN 0 ELSE p

CapitalizedNot(s) == s

Capitalized(s) ==
    CASE s = "started" -> "Started"
      [] s = "downloading" -> "Downloading"
      [] s = "completed" -> "Completed"
      [] s = "error" -> "Error"

\* updateStatus: the DOM afterwards, the showError calls made, and whether it threw.
\* A body without a status throws at data.status.charAt, before any write.
updateStatus(d, data) ==
    IF data.status \notin Statuses
    THEN [dom |-> d, errs |-> 0, threw |-> TRUE]
    ELSE LET text == IF data.status = "downloading" THEN "Converting to MP3..."
                     ELSE Capitalized(data.status)
             d1 == [d EXCEPT !.status = text]
         IN  CASE data.status \in {"started", "downloading"} ->
                   [dom |-> [d1 EXCEPT !.badge = "badge bg-primary",
                                       !.bar = progressOr0(data.progress)],
                    errs |-> 0, threw |-> FALSE]
               [] data.status = "completed" ->
                   [dom |-> [d1 EXCEPT !.badge = "badge bg-success",
                                       !.status = "MP3 Conversion Complete!",
                                       !.bar = 100, !.animated = FALSE,
                                       !.actions = TRUE],
                    errs |-> 0, threw |-> FALSE]
               [] data.status = "error" ->
                   [dom |-> showError([d1 EXCEPT !.badge = "badge bg-danger",
                                                 !.status = "Conversion Failed",
                                                 !.animated = FALSE],
                                      OrElse(data.error, MsgJobGeneric)),
                    errs |-> 1, threw |-> FALSE]

\* the bodies a status request can be answered with
Snapshots(r) ==
    {[status |-> s, progress |-> p, error |-> e] :
        s \in Reportable(r.lo, jobStatus[r.task]) \cup {"missing"},
        p \in Progresses, e \in Details}

\* whether the tick's continuation cancels the interval after rendering data
stopsOnErrorOnly(data) == data.status = "error"

stopsPolling(data) == data.status = "completed" \/ data.status = "error"

\* the catch block of the tick: console.error only
pollFailedCancelling(si, ts) == hideDownloadStatusInterval(si, ts)

pollFailed(si, ts) == <<si, ts>>

\* the continuation of a tick whose fetch or response.json() rejected
StatusFailure(r, outcome) ==
    /\ UNCHANGED events
    /\ r \in BagToSet(statusReqs)
    /\ outcome \in {"reject", "badjson"}
    /\ statusReqs' = statusReqs (-) SetToBag({r})
    /\ statusInterval' = pollFailed(statusInterval, timers)[1]
    /\ timers' = pollFailed(statusInterval, timers)[2]
    /\ lastOp' = [Op("statusFailure") EXCEPT !.task = r.task, !.arg = outcome]
    /\ UNCHANGED <<currentTaskId, nextTimer, hideTimers, storage, dom, resultBtns,
                   gen, previewReqs, searchReqs, launchReqs, nextTask, jobStatus,
                   launched>>

\* the continuation of a tick whose request was answered with body data
StatusResponse(r, data) ==
    /\ UNCHANGED events
    /\ r \in BagToSet(statusReqs)
    /\ data \in Snapshots(r)
    /\ LET u == updateStatus(dom, data)
       IN  /\ hideTimers + u.errs <= MaxPendingHides
           /\ statusReqs' = statusReqs (-) SetToBag({r})
           /\ dom' = u.dom
           /\ hideTimers' = hideTimers + u.errs
           /\ IF u.threw
              THEN /\ statusInterval' = pollFailed(statusInterval, timers)[1]
                   /\ timers' = pollFailed(statusInterval, timers)[2]
              ELSE IF stopsPolling(data)
              THEN /\ timers' = timers \ {statusInterval}
                   /\ statusInterval' = NoTimer
              ELSE UNCHANGED <<statusInterval, timers>>
           /\ lastOp' = [Op("statusResponse") EXCEPT !.task = r.task,
                             !.arg = data.status, !.errs = u.errs,
                             !.progress = data.progress]
    /\ UNCHANGED <<currentTaskId, nextTimer, storage, resultBtns, gen, previewReqs,
                   searchReqs, launchReqs, nextTask, jobStatus, launched>>

\* ------------------------------------------------------------ other steps
\* the setTimeout callback of showError
AutoHide ==
    /\ UNCHANGED events
    /\ hideTimers > 0
    /\ hideTimers' = hideTimers - 1
    /\ dom' = hideError(dom)
    /\ lastOp' = Op("autoHide")
    /\ UNCHANGED <<currentTaskId, statusInterval, timers, nextTimer, storage,
                   resultBtns, gen, previewReqs, searchReqs, launchReqs, statusReqs,
                   nextTask, jobStatus, launched>>

\* downloadFileBtn click: window.open(`/download/${currentTaskId}`)
DownloadFileClick ==
    /\ events < MaxEvents
    /\ events' = events + 1
    /\ dom.downloadSection /\ dom.downloadStatus /\ dom.actions
    /\ currentTaskId # NoTask
    /\ lastOp' = [Op("open") EXCEPT !.task = currentTaskId]
    /\ UNCHANGED <<currentTaskId, statusInterval, timers, nextTimer, hideTimers,
                   storage, dom, resultBtns, gen, previewReqs, searchReqs, launchReqs,
                   statusReqs, nextTask, jobStatus, launched>>

Next ==
    \/ SearchModeChange
    \/ DownloadModeChange
    \/ \E v \in Inputs : PreviewClick(v)
    \/ \E o \in Outcomes, e \in Details : PreviewResponse(o, e)
    \/ \E v \in Inputs : SearchClick(v)
    \/ \E o \in Outcomes, e \in Details, n \in 0..MaxResults : SearchResponse(o, e, n)
    \/ \E v \in Inputs : SubmitForm(v)
    \/ \E b \in DOMAIN resultBtns : ResultClick(b)
    \/ \E r \in launchReqs, o \in Outcomes, e \in Details : LaunchResponse(r, o, e)
    \/ \E t \in DOMAIN jobStatus, s \in Statuses : JobAdvance(t, s)
    \/ \E t \in timers : Tick(t)
    \/ \E r \in BagToSet(statusReqs), o \in {"reject", "badjson"} : StatusFailure(r, o)
    \/ \E r \in BagToSet(statusReqs) : \E data \in Snapshots(r) : StatusResponse(r, data)
    \/ AutoHide
    \/ DownloadFileClick

Spec == Init /\ [][Next]_vars


\* ------------------------------------------------------------ properties
Last(q) == q[Len(q)]

\* a status request was sent in this step
Sent(r) == CopiesIn(r, statusReqs') > CopiesIn(r, statusReqs)

\* a status request was settled in this step
Settled == BagCardinality(statusReqs') < BagCardinality(statusReqs)

\* the first launch was polled, untouched by any hide or terminal snapshot,
\* when the second launch succeeded
SecondLaunchOverFirst ==
    /\ Len(launched) = 2
    /\ storage = "absent"
    /\ jobStatus[launched[1]] = "started"

\* C1: at most one poll interval is live, and it is the one statusInterval
\* refers to; with statusInterval null no interval is live.
C1_OneInterval ==
    /\ Cardinality(timers) <= 1
    /\ timers = IF statusInterval = NoTimer THEN {} ELSE {statusInterval}

C1_Witness ==
    /\ SecondLaunchOverFirst
    /\ statusInterval = 2
    /\ timers = {2}

\* C2: every status request a tick sends is for the handle current at the
\* tick, never for a null handle, and so for the job launched last: after a
\* second successful launch no request for the first job's id is sent.
C2_TickTargetsCurrent ==
    [][\A r \in BagToSet(statusReqs') :
          Sent(r) => /\ currentTaskId # NoTask
                     /\ r.task = currentTaskId
                     /\ r.task = Last(launched)]_vars

C2_Witness ==
    /\ SecondLaunchOverFirst
    /\ lastOp.op = "tick"
    /\ \E r \in BagToSet(statusReqs) : r.task = launched[2]

\* C3 (as claimed): the interval of the active job stops only on a terminal
\* snapshot for that job or on an explicit hide of the status panel (a new
\* launch replaces the interval, it does not leave the poller idle).
C3_OnlyThreeStops ==
    [][(currentTaskId # NoTask /\ statusInterval # NoTimer /\ statusInterval' = NoTimer)
          => \/ lastOp'.op = "setSearchMode"
             \/ /\ lastOp'.op = "statusResponse"
                /\ lastOp'.arg \in Terminal
                /\ lastOp'.task = currentTaskId]_vars

\* C4: a completed or error snapshot leaves the poller idle, with no interval
\* live; an idle poller sends no status request and only a successful launch
\* makes it active again; an error snapshot calls showError once, a completed
\* one not at all.
C4_TerminalStops ==
    /\ [](lastOp.op = "statusResponse" /\ lastOp.arg \in Terminal
            => /\ statusInterval = NoTimer
               /\ timers = {}
               /\ lastOp.errs = (IF lastOp.arg = "error" THEN 1 ELSE 0)
               /\ (lastOp.arg = "error" => dom.status = "Conversion Failed"))
    /\ [][/\ (\E r \in BagToSet(statusReqs') : Sent(r)) => statusInterval # NoTimer
          /\ (statusInterval = NoTimer /\ statusInterval' # NoTimer)
                => lastOp'.op = "launchResponse" /\ lastOp'.arg = "ok"]_vars

C4_Witness ==
    /\ lastOp.op = "statusResponse"
    /\ lastOp.arg = "error"
    /\ lastOp.task = currentTaskId
    /\ dom.errorSection

\* C5 (as claimed): after the status panel is hidden the poller is idle and
\* the job handle is null.
C5_HideClearsHandle ==
    lastOp.op = "setSearchMode"
        => statusInterval = NoTimer /\ timers = {} /\ currentTaskId = NoTask

\* C5 (amended): hiding the status panel leaves the poller idle and the panel
\* hidden, and leaves the job handle as it was.
C5_HideKeepsHandle ==
    [][lastOp'.op = "setSearchMode"
          => /\ statusInterval' = NoTimer
             /\ timers' = {}
             /\ ~dom'.downloadStatus
             /\ currentTaskId' = currentTaskId]_vars

\* the panel was hidden right after a launch, while its job was being polled
C5_Witness ==
    /\ lastOp.op = "setSearchMode"
    /\ events = 2
    /\ currentTaskId # NoTask
    /\ jobStatus[currentTaskId] = "started"
    /\ statusInterval = NoTimer

\* C6: a tick whose request is rejected, whose body does not parse or whose
\* body cannot be rendered changes neither the handle, the interval, the
\* displayed status nor the error banner.
C6_FailedTickIgnored ==
    [][(Settled /\ lastOp'.arg \in {"reject", "badjson", "missing"})
          => /\ dom' = dom
             /\ UNCHANGED <<currentTaskId, statusInterval, timers, hideTimers>>]_vars

C6_Witness ==
    /\ lastOp.op = "statusFailure"
    /\ lastOp.task = currentTaskId
    /\ statusInterval \in timers

\* C7: after a successful launch response the handle is the returned task_id
\* (the one of the response that arrived last), the status panel shows its
\* initial state and the poller is active.
C7_LaunchInstallsHandle ==
    (lastOp.op = "launchResponse" /\ lastOp.arg = "ok")
        => /\ currentTaskId = lastOp.task
           /\ Last(launched) = lastOp.task
           /\ dom.downloadStatus
           /\ dom.status = "Starting Conversion..."
           /\ dom.bar = 0
           /\ ~dom.actions
           /\ statusInterval \in timers

\* two launches were in flight together and were answered in the other order
C7_Witness ==
    /\ lastOp.op = "launchResponse" /\ lastOp.arg = "ok"
    /\ Len(launched) = 2
    /\ launched[1] > launched[2]
    /\ currentTaskId = launched[2]

\* C8: after a successful launch from a search result the page is in download
\* mode with the download panel and the status panel visible, the poller is
\* active and the stored mode is "download".
C8_SearchLaunchShowsStatus ==
    (lastOp.op = "launchResponse" /\ lastOp.arg = "ok" /\ lastOp.kind = "result")
        => /\ dom.modeText = "Current: Direct URL Mode"
           /\ dom.checked = "download"
           /\ dom.downloadSection /\ ~dom.searchSection
           /\ dom.downloadStatus
           /\ statusInterval \in timers
           /\ storage = "download"

C8_Witness ==
    /\ lastOp.op = "launchResponse" /\ lastOp.arg = "ok" /\ lastOp.kind = "result"
    /\ currentTaskId = lastOp.task

\* requests in flight that button b of a result list started
OfButton(b) == {r \in launchReqs : r.ctl = ResultCtl(b)}

OfForm == {r \in launchReqs : r.ctl = FormCtl}

\* C9: each control has at most one request in flight; it is disabled with
\* its loading label exactly while that request is in flight, and enabled
\* with its original label otherwise, whatever the outcome was.
C9_ControlRestored ==
    /\ previewReqs <= 1
    /\ dom.previewBtn =
          IF previewReqs = 1 THEN Loading(PreviewLoading) ELSE Button(PreviewLabel)
    /\ searchReqs <= 1
    /\ dom.searchBtn =
          IF searchReqs = 1 THEN Loading(SearchLoading) ELSE Button(SearchLabel)
    /\ Cardinality(OfForm) <= 1
    /\ dom.submitBtn =
          IF OfForm # {} THEN Loading(SubmitLoading) ELSE Button(SubmitLabel)
    /\ \A r \in launchReqs : r.ctl.kind = "result" => r.ctl.btn \in DOMAIN resultBtns
    /\ \A b \in DOMAIN resultBtns :
          /\ Cardinality(OfButton(b)) <= 1
          /\ resultBtns[b] =
                IF OfButton(b) # {} THEN Loading(ResultLoading) ELSE Button(ResultLabel)

\* a request ended in a network exception and its button is usable again
C9_Witness ==
    /\ lastOp.op \in {"previewResponse", "searchResponse", "launchResponse"}
    /\ lastOp.arg = "reject"
    /\ ~dom.previewBtn.disabled /\ ~dom.searchBtn.disabled /\ ~dom.submitBtn.disabled

\* C10 (as claimed): a click that reads an empty or whitespace-only URL or
\* query sends no request and shows a validation error.
C10_BlankRejected ==
    (lastOp.op \in {"previewClick", "submit", "searchClick"} /\ lastOp.blank)
        => /\ lastOp.errs = 1
           /\ dom.errorSection
           /\ dom.errorMessage \in {MsgNoUrl, MsgNoQuery}
           /\ lastOp.op = "previewClick" => previewReqs = 0
           /\ lastOp.op = "submit" => OfForm = {}
           /\ lastOp.op = "searchClick" => searchReqs = 0

\* what the user sees of the panels a mode switch touches
Visible(d) ==
    <<d.searchSection, d.downloadSection, d.searchResults, d.downloadStatus,
      d.errorSection, d.modeText>>

\* C11 (as claimed): both mode switches are idempotent on the visible state,
\* each leaves exactly one of the search and download panels visible, and
\* search -> download -> search shows what a single switch to search shows.
C11_ModeSwitchAlgebra ==
    /\ Visible(setSearchMode(setSearchMode(dom))) = Visible(setSearchMode(dom))
    /\ Visible(setDownloadMode(setDownloadMode(dom))) = Visible(setDownloadMode(dom))
    /\ setSearchMode(dom).searchSection /\ ~setSearchMode(dom).downloadSection
    /\ setDownloadMode(dom).downloadSection /\ ~setDownloadMode(dom).searchSection
    /\ Visible(setSearchMode(setDownloadMode(setSearchMode(dom))))
          = Visible(setSearchMode(dom))

\* the mode the page presents
ShownMode(d) ==
    IF d.modeText = "Current: Search Videos Mode" /\ d.searchSection /\ ~d.downloadSection
    THEN "search"
    ELSE IF d.modeText = "Current: Direct URL Mode" /\ d.downloadSection
            /\ ~d.searchSection
    THEN "download"
    ELSE "none"

\* C12: the stored preference is the mode set last: the page shows search
\* mode exactly when "search" is stored and download mode for every other
\* stored value, at load (which writes nothing) and after every toggle and
\* every launch from a search result.
C12_StoredModeIsLastSet ==
    /\ ShownMode(dom) = (IF storage = "search" THEN "search" ELSE "download")
    /\ dom.checked = ShownMode(dom)
    /\ lastOp.op \in {"setSearchMode", "setDownloadMode"} => storage = dom.checked
    /\ storage \in {"absent", "other"} => dom.checked = "download"

\* the second event of a run was a toggle to download mode
C12_Witness ==
    /\ lastOp.op = "setDownloadMode"
    /\ events = 2
    /\ storage = "download"
    /\ ShownMode(dom) = "download"

\* C13 (as claimed): the label and the badge after a snapshot depend on its
\* status alone, and a started snapshot is labelled "Starting Conversion...".
C13_LabelsAsSpecified ==
    (lastOp.op = "statusResponse" /\ lastOp.arg \in Statuses)
        => /\ dom.status =
                 CASE lastOp.arg = "started" -> "Starting Conversion..."
                   [] lastOp.arg = "downloading" -> "Converting to MP3..."
                   [] lastOp.arg = "completed" -> "MP3 Conversion Complete!"
                   [] lastOp.arg = "error" -> "Conversion Failed"
           /\ dom.badge =
                 CASE lastOp.arg \in {"started", "downloading"} -> "badge bg-primary"
                   [] lastOp.arg = "completed" -> "badge bg-success"
                   [] lastOp.arg = "error" -> "badge bg-danger"

\* C13 (amended): the same, except that a started snapshot is labelled
\* "Started", the capitalised status.
C13_LabelsOfTheCode ==
    (lastOp.op = "statusResponse" /\ lastOp.arg \in Statuses)
        => /\ dom.status =
                 CASE lastOp.arg = "started" -> "Started"
                   [] lastOp.arg = "downloading" -> "Converting to MP3..."
                   [] lastOp.arg = "completed" -> "MP3 Conversion Complete!"
                   [] lastOp.arg = "error" -> "Conversion Failed"
           /\ dom.badge =
                 CASE lastOp.arg \in {"started", "downloading"} -> "badge bg-primary"
                   [] lastOp.arg = "completed" -> "badge bg-success"
                   [] lastOp.arg = "error" -> "badge bg-danger"

C13_Witness ==
    /\ lastOp.op = "statusResponse"
    /\ lastOp.arg = "started"
    /\ dom.status = "Started"
    /\ dom.badge = "badge bg-primary"

\* C14: a completed snapshot sets the bar to 100 whatever its progress field
\* is and shows the action buttons; a started or downloading snapshot sets
\* the bar to its progress, 0 when the field is absent; an error snapshot
\* leaves the bar as it was.
C14_ProgressBar ==
    [][(Settled /\ lastOp'.op = "statusResponse")
          => CASE lastOp'.arg = "completed" -> dom'.bar = 100 /\ dom'.actions
               [] lastOp'.arg \in {"started", "downloading"} ->
                     dom'.bar = (IF lastOp'.progress = Absent THEN 0
                                 ELSE lastOp'.progress)
               [] lastOp'.arg = "error" -> dom'.bar = dom.bar
               [] OTHER -> TRUE]_vars

\* a completed snapshot whose progress field said 42
C14_Witness ==
    /\ lastOp.op = "statusResponse"
    /\ lastOp.arg = "completed"
    /\ lastOp.progress = 42
    /\ dom.bar = 100
    /\ dom.actions

\* ------------------------------------------------- showError on its own
\* the substrings showError looks for, and one it does not know
Fragments ==
    {"precondition check failed", "YouTube API error", "private", "deleted",
     "No valid videos found", "HTTP Error 400", "Bad Request", "Video unavailable"}

Messages == UNION {[1..n -> Fragments] : n \in 0..MaxFragments}

\* some handler hands message m to showError
ShowErrorCall(m) ==
    /\ hideTimers < MaxPendingHides
    /\ dom' = showError(dom, m)
    /\ hideTimers' = hideTimers + 1
    /\ lastOp' = [Op("showError") EXCEPT !.msg = m, !.errs = 1]
    /\ UNCHANGED <<currentTaskId, statusInterval, timers, nextTimer, storage,
                   resultBtns, gen, previewReqs, searchReqs, launchReqs, statusReqs,
                   nextTask, jobStatus, launched, events>>

NextShowError ==
    \/ \E m \in Messages : ShowErrorCall(m)
    \/ AutoHide

SpecShowError == Init /\ [][NextShowError]_vars

Has(m, f) == f \in {m[i] : i \in DOMAIN m}

RuleApi(m) == Has(m, "precondition check failed") \/ Has(m, "YouTube API error")
RuleBadRequest(m) == Has(m, "HTTP Error 400") \/ Has(m, "Bad Request")

\* the rules tried in the order 1..5, the first that matches deciding
FirstMatchWins(m, out) ==
    /\ RuleApi(m) => out = FriendlyApi
    /\ (~RuleApi(m) /\ Has(m, "private")) => out = FriendlyPrivate
    /\ (~RuleApi(m) /\ ~Has(m, "private") /\ Has(m, "deleted")) => out = FriendlyDeleted
    /\ (~RuleApi(m) /\ ~Has(m, "private") /\ ~Has(m, "deleted")
          /\ Has(m, "No valid videos found")) => out = FriendlyEmpty
    /\ (~RuleApi(m) /\ ~Has(m, "private") /\ ~Has(m, "deleted")
          /\ ~Has(m, "No valid videos found") /\ RuleBadRequest(m))
          => out = FriendlyBadRequest
    /\ (~RuleApi(m) /\ ~Has(m, "private") /\ ~Has(m, "deleted")
          /\ ~Has(m, "No valid videos found") /\ ~RuleBadRequest(m)) => out = m

\* C15 (as claimed): showError displays the message rewritten by the first
\* matching rule, verbatim when none matches, and every message containing
\* "private" as the private-video message.
C15_PrivateAlways ==
    lastOp.op = "showError"
        => /\ dom.errorSection
           /\ FirstMatchWins(lastOp.msg, dom.errorMessage)
           /\ Has(lastOp.msg, "private") => dom.errorMessage = FriendlyPrivate

\* C15 (amended): first match wins, so a message containing "private" is
\* displayed as the private-video message unless it also matches rule 1.
C15_FirstMatchWins ==
    lastOp.op = "showError"
        => /\ dom.errorSection
           /\ FirstMatchWins(lastOp.msg, dom.errorMessage)
           /\ (Has(lastOp.msg, "private") /\ ~RuleApi(lastOp.msg))
                 => dom.errorMessage = FriendlyPrivate

\* a message matching rules 2 and 3 is rewritten by rule 2
C15_Witness ==
    /\ lastOp.op = "showError"
    /\ lastOp.msg = <<"deleted", "private">>
    /\ dom.errorMessage = FriendlyPrivate

\* ----------------------------------------------------- properties, continued
\* a setTimeout callback of showError ran in this step; the callbacks all
\* have the same delay, so the one that runs is the oldest pending one
Fired == lastOp'.op = "autoHide" /\ hideTimers' < hideTimers

\* the steps whose handler calls hideError itself
HidesError ==
    \/ lastOp'.op \in {"setSearchMode", "setDownloadMode"}
    \/ /\ lastOp'.op \in {"previewResponse", "searchResponse", "launchResponse"}
       /\ lastOp'.arg = "ok"

\* C16 (as claimed): the timeout of an error hides it; a visible error is
\* hidden by a timeout only when the timeout is its own, the only one
\* pending; otherwise it disappears only by an explicit hideError, and a
\* newer error takes the banner over.
C16_DismissedAfterOwnDelay ==
    [][/\ Fired => ~dom'.errorSection
       /\ (Fired /\ dom.errorSection) => hideTimers = 1
       /\ (dom.errorSection /\ ~dom'.errorSection) => (Fired \/ HidesError)
       /\ lastOp'.errs = 1 /\ lastOp' # lastOp => dom'.errorSection]_vars

\* the message a failed request hands to showError: the detail of a non-2xx
\* body or else the generic text, and "Network error: " with the message of
\* the exception when fetch or response.json() rejected
FailureMessage(generic) ==
    IF lastOp'.arg = "fail"
    THEN IF lastOp'.msg # <<>> THEN lastOp'.msg ELSE generic
    ELSE <<"Network error: ">>
            \o (IF lastOp'.arg = "reject" THEN FetchRejected ELSE JsonRejected)

FailureShown(generic) ==
    /\ dom'.errorSection
    /\ dom'.errorMessage = showError(dom, FailureMessage(generic)).errorMessage

C18_StaleAnswerIgnored ==
    [][(Settled /\ lastOp'.op = "statusResponse" /\ lastOp'.task # currentTaskId)
          => dom' = dom /\ UNCHANGED <<statusInterval, timers>>]_vars

\* C19 (as claimed): while the action buttons are visible the job of the
\* current handle is completed.
C19_ActionsMeanCompleted ==
    dom.actions => currentTaskId # NoTask /\ jobStatus[currentTaskId] = "completed"

TerminalLabels == {"MP3 Conversion Complete!", "Conversion Failed"}

\* C20 (as claimed), for runs that launch one job: a started or downloading
\* snapshot of the job never arrives over its completed or failed display.
C20_TerminalDisplayKept ==
    [][(/\ Settled
        /\ lastOp'.op = "statusResponse"
        /\ lastOp'.arg \in {"started", "downloading"}
        /\ Len(launched) = 1
        /\ lastOp'.task = currentTaskId)
          => dom.status \notin TerminalLabels]_vars

\* a mode radio was switched in this step
Switched(mode) == events' = events + 1 /\ lastOp'.op = mode

\* a launch was answered with a task id in this step
LaunchAccepted ==
    /\ launchReqs' # launchReqs /\ launchReqs' \subseteq launchReqs
    /\ lastOp'.op = "launchResponse" /\ lastOp'.arg = "ok"

\* C21: a switch to search mode hides the status panel and cancels the
\* interval but keeps the job handle; a switch to download mode changes none
\* of handle, interval and status panel; and once the poller is idle or the
\* panel hidden, only a newly accepted launch starts the one or shows the other.
C21_ModeSwitchIdlesPoller ==
    [][/\ Switched("setSearchMode")
            => /\ ~dom'.downloadStatus
               /\ statusInterval' = NoTimer /\ timers' = {}
               /\ currentTaskId' = currentTaskId
       /\ Switched("setDownloadMode")
            => /\ dom'.downloadStatus = dom.downloadStatus
               /\ UNCHANGED <<currentTaskId, statusInterval, timers>>
       /\ (statusInterval = NoTimer /\ statusInterval' # NoTimer) => LaunchAccepted
       /\ (~dom.downloadStatus /\ dom'.downloadStatus) => LaunchAccepted]_vars

\* a running job was being polled, the user switched to search mode and
\* back to download mode, and the job is still running with no poller
C21_Witness ==
    /\ lastOp.op = "setDownloadMode"
    /\ currentTaskId # NoTask
    /\ jobStatus[currentTaskId] \in {"started", "downloading"}
    /\ statusInterval = NoTimer /\ timers = {}
    /\ ~dom.downloadStatus
    /\ dom.downloadSection

\* C22 (as claimed): whenever the page is in download mode the
\* search-results panel is hidden.
C22_DownloadModeHidesResults ==
    ShownMode(dom) = "download" => ~dom.searchResults

====
